---- MODULE Spec2Model ----
(***************************************************************************)
(* Agano: run-time thread-ownership guard (ThreadBound<T>) and the         *)
(* lock-scoped guard pair (Synced<T, M> / Locked<T, M>) of                 *)
(* agano/include/agano.hpp, instantiated as in example.cpp with T = int    *)
(* and M = std::mutex.                                                     *)
(*                                                                         *)
(* Threads are pre-emptive OS threads.  No member of ThreadBound is        *)
(* synchronised, so every read and write of owner_id and object is a step  *)
(* of its own and the steps of different threads interleave freely.        *)
(* The copy/move assignment operators (agano.hpp:128-157) call a member    *)
(* set_owner_id_ that the class does not declare; they cannot be           *)
(* instantiated and are not part of the model.                             *)
(*                                                                         *)
(* The capability predicates send_tag_v, Send, Sync and Mutex are          *)
(* evaluated by the compiler; they are modelled as operators on type       *)
(* terms, and the compiler's instantiations as the steps of SpecTraits.    *)
(***************************************************************************)
EXTENDS Integers, FiniteSets, Sequences, TLC

\* ------------------------------------------------------------------ bounds
NThreads == 2
MaxGuards == 3
MaxValue == 1
MaxGrants == 3
MaxOps == 3
MaxCalls == 3
MaxNest == 2

Threads == 1..NThreads
Guards == 1..MaxGuards
Values == 0..MaxValue

\* ThreadBound<T>::unbound, a default-constructed std::thread::id: it
\* compares unequal to the id of every thread of execution.
unbound == 0
ThreadIds == Threads \cup {unbound}

\* std::mutex not held by any thread.
Free == 0

VARIABLES
    life,       \* per guard slot: "none", "building" (constructor running), "live"
    object,     \* ThreadBound::object
    owner_id,   \* ThreadBound::owner_id
    born,       \* per guard: which constructor made it, on which thread, from what
    movedFrom,  \* per guard: some move constructor has reset it
    firstUser,  \* per guard: the thread that entered operator* / operator-> on it first
    pc,         \* per thread: position inside the member function it is running
    calls,      \* number of calls of operator*, operator->, is_unbound and
                \* get_owner_id made so far
    op,         \* per thread: this / rhs of the running member function, and the
                \* owner_id that validate_ passes to EH_PANIC
    mutex_,     \* Synced::mutex_ : Free or the thread holding it
    owned_,     \* Synced::owned_
    lpc,        \* per thread: "idle" or "locking" (blocked inside Synced::lock)
    guards,     \* per thread: number of live Locked objects it has in scope
    epoch,      \* per thread: grant number of its live Locked object
    grants,     \* number of Locked objects granted so far
    unlocks,    \* number of times ~Locked has released the mutex
    lastExit,   \* the way the latest Locked guard left its scope
    opLog,      \* grant numbers of the guards the payload operations went through
    ty,         \* the type the compiler is classifying
    mtx,        \* the type offered as the M of Synced<T, M> and Locked<T, M>
    verdict     \* what Send<ty>, Sync<ty> and Mutex<mtx> evaluated to, "?" before

tbVars == <<life, object, owner_id, born, movedFrom, firstUser, pc, op, calls>>
lkVars == <<mutex_, owned_, lpc, guards, epoch, grants, unlocks, lastExit, opLog>>
trVars == <<ty, mtx, verdict>>
vars == <<life, object, owner_id, born, movedFrom, firstUser, pc, op, calls,
          mutex_, owned_, lpc, guards, epoch, grants, unlocks, lastExit, opLog,
          ty, mtx, verdict>>

NoBirth == [how |-> "none", by |-> unbound, src |-> 0, srcOwner |-> unbound]
NoOp == [this |-> 0, rhs |-> 0, first |-> FALSE, owner |-> unbound]

\* std::this_thread::get_id()
get_id(self) == self

\* ThreadBound::is_unbound, as a function of the owner_id it reads
is_unbound(o) == o = unbound

\* ThreadBound::get_owner_id
get_owner_id(g) == owner_id[g]

\* The mutated get_owner_id_: the new guard takes over the recorded owner of rhs.
get_owner_id_keep(rhsOwner, self) == rhsOwner

\* The mutated get_owner_id_: the new guard is bound to the caller even when rhs is unbound.
get_owner_id_self(rhsOwner, self) == get_id(self)

\* ThreadBound::get_owner_id_(rhs), called by the copy and the move constructor
get_owner_id_(rhsOwner, self) ==
    IF is_unbound(rhsOwner) THEN unbound ELSE get_id(self)

\* The storage the next constructed ThreadBound occupies.
NextSlot == CHOOSE g \in Guards : life[g] = "none" /\ \A h \in Guards : life[h] = "none" => g <= h
HasSlot == \E g \in Guards : life[g] = "none"

TBInit ==
    /\ life = [g \in Guards |-> "none"]
    /\ object = [g \in Guards |-> 0]
    /\ owner_id = [g \in Guards |-> unbound]
    /\ born = [g \in Guards |-> NoBirth]
    /\ movedFrom = [g \in Guards |-> FALSE]
    /\ firstUser = [g \in Guards |-> unbound]
    /\ pc = [t \in Threads |-> "idle"]
    /\ op = [t \in Threads |-> NoOp]
    /\ calls = 0

\* Synced(T&& rhs): owned_{rhs}, mutex_ default-constructed (unlocked)
LockInit ==
    /\ mutex_ = Free
    /\ owned_ \in Values
    /\ lpc = [t \in Threads |-> "idle"]
    /\ guards = [t \in Threads |-> 0]
    /\ epoch = [t \in Threads |-> 0]
    /\ grants = 0
    /\ unlocks = 0
    /\ lastExit = "none"
    /\ opLog = <<>>

\* ------------------------------------------------ capability predicates

\* Type terms.  base is the innermost payload type, wraps the M arguments of
\* the Synced<., M> templates around it (innermost first), const and ref the
\* qualification of the whole type: const (of the referee for a reference),
\* and no reference, an lvalue or an rvalue reference.
BaseTypes == {"int", "double"}
MutexArgs == {"std::mutex", "std::recursive_mutex", "int"}
RefKinds == {"none", "lref", "rref"}

Plain(b) == [base |-> b, wraps |-> <<>>, const |-> FALSE, ref |-> "none"]
NoVerdict == [send |-> "?", sync |-> "?", mutex |-> "?"]
Answer(b) == IF b THEN "yes" ELSE "no"

\* T is some Synced<U, M>, possibly cv-ref qualified.
IsSynced(T) == Len(T.wraps) > 0

\* The U of Synced<U, M>.
Inner(T) == [Plain(T.base) EXCEPT !.wraps = SubSeq(T.wraps, 1, Len(T.wraps) - 1)]

\* Synced<T, M>
SyncedOf(T, M) == [Plain(T.base) EXCEPT !.wraps = Append(T.wraps, M)]

\* std::remove_cvref_t<T>
remove_cvref_t(T) == [T EXCEPT !.const = FALSE, !.ref = "none"]

\* const T& : const is ignored on a reference type and a reference to a
\* reference collapses to an lvalue reference.
ConstRef(T) ==
    IF T.ref = "none" THEN [T EXCEPT !.const = TRUE, !.ref = "lref"]
    ELSE [T EXCEPT !.ref = "lref"]

\* concept Mutex: obj.lock(), obj.unlock() and std::lock_guard<T> are valid.
Mutex(M) == M \in {"std::mutex", "std::recursive_mutex"}

\* std::movable<T>: an object type that is move constructible and move
\* assignable.  int and double are; a const type is not assignable, a
\* reference is not an object type, and Synced has its move constructor and
\* move assignment deleted.
movable(T) == T.ref = "none" /\ ~T.const /\ ~IsSynced(T)

RECURSIVE send_tag_v(_), Send(_)

\* send_tag_v: false in general; true for int, and for Synced<T, M>,
\* Synced<T, M>& and const Synced<T, M>& where Send<T> and Mutex<M>.
send_tag_v(T) ==
    IF IsSynced(T)
    THEN /\ Send(Inner(T)) /\ Mutex(T.wraps[Len(T.wraps)])
         /\ \/ ~T.const /\ T.ref \in {"none", "lref"}
            \/ T.const /\ T.ref = "lref"
    ELSE T.base = "int" /\ ~T.const /\ T.ref = "none"

\* concept Send = send_tag_v<remove_cvref_t<T>> && std::movable<remove_cvref_t<T>>
Send(T) == send_tag_v(remove_cvref_t(T)) /\ movable(remove_cvref_t(T))

\* concept Sync = send_tag_v<const remove_cvref_t<T>&>
Sync(T) == send_tag_v(ConstRef(remove_cvref_t(T)))

\* The translation unit starts from int and std::mutex, as example.cpp does.
TraitsInit ==
    /\ ty = Plain("int")
    /\ mtx = "std::mutex"
    /\ verdict = NoVerdict

\* The program names a payload type.
Declare(b) ==
    /\ ty' = Plain(b)
    /\ verdict' = [verdict EXCEPT !.send = "?", !.sync = "?"]
    /\ UNCHANGED <<mtx, tbVars, lkVars>>

\* The program names a candidate for the M of Synced<T, M>.
PickMutex(m) ==
    /\ mtx' = m
    /\ verdict' = [verdict EXCEPT !.mutex = "?"]
    /\ UNCHANGED <<ty, tbVars, lkVars>>

\* const T
AddConst ==
    /\ ty.ref = "none" /\ ~ty.const
    /\ ty' = [ty EXCEPT !.const = TRUE]
    /\ verdict' = [verdict EXCEPT !.send = "?", !.sync = "?"]
    /\ UNCHANGED <<mtx, tbVars, lkVars>>

\* T& and T&&
AddRef(r) ==
    /\ ty.ref = "none" /\ r # "none"
    /\ ty' = [ty EXCEPT !.ref = r]
    /\ verdict' = [verdict EXCEPT !.send = "?", !.sync = "?"]
    /\ UNCHANGED <<mtx, tbVars, lkVars>>

\* template<Send T, Mutex M> class Synced: the class can be instantiated
\* only with arguments that satisfy its constraints.
InstantiateSynced ==
    /\ ty.ref = "none" /\ ~ty.const
    /\ Len(ty.wraps) < MaxNest
    /\ Send(ty) /\ Mutex(mtx)
    /\ ty' = SyncedOf(ty, mtx)
    /\ verdict' = [verdict EXCEPT !.send = "?", !.sync = "?"]
    /\ UNCHANGED <<mtx, tbVars, lkVars>>

\* The compiler evaluates Send<ty>.
EvalSend ==
    /\ verdict.send = "?"
    /\ verdict' = [verdict EXCEPT !.send = Answer(Send(ty))]
    /\ UNCHANGED <<ty, mtx, tbVars, lkVars>>

\* The compiler evaluates Sync<ty>.
EvalSync ==
    /\ verdict.sync = "?"
    /\ verdict' = [verdict EXCEPT !.sync = Answer(Sync(ty))]
    /\ UNCHANGED <<ty, mtx, tbVars, lkVars>>

\* The compiler evaluates Mutex<mtx>.
EvalMutex ==
    /\ verdict.mutex = "?"
    /\ verdict' = [verdict EXCEPT !.mutex = Answer(Mutex(mtx))]
    /\ UNCHANGED <<ty, mtx, tbVars, lkVars>>

\* A program that uses ThreadBound guards only: one Synced<int> that is never locked.
Init == TBInit /\ LockInit /\ TraitsInit /\ owned_ = 0

\* A program that uses one Synced<int> only.
InitSynced == TBInit /\ LockInit /\ TraitsInit

\* ------------------------------------------------- ThreadBound constructors

\* ThreadBound(T&& obj): object{obj}, owner_id{this_thread::get_id()}
Construct(self, v) ==
    /\ pc[self] = "idle"
    /\ HasSlot
    /\ LET g == NextSlot IN
        /\ life' = [life EXCEPT ![g] = "live"]
        /\ object' = [object EXCEPT ![g] = v]
        /\ owner_id' = [owner_id EXCEPT ![g] = get_id(self)]
        /\ born' = [born EXCEPT ![g] = [NoBirth EXCEPT !.how = "normal", !.by = self]]
    /\ UNCHANGED <<movedFrom, firstUser, pc, op, calls>>
    /\ UNCHANGED <<lkVars, trVars>>

\* ThreadBound(DeferBindingTag, T&& obj): object{obj}, owner_id default-constructed
ConstructDeferred(self, v) ==
    /\ pc[self] = "idle"
    /\ HasSlot
    /\ LET g == NextSlot IN
        /\ life' = [life EXCEPT ![g] = "live"]
        /\ object' = [object EXCEPT ![g] = v]
        /\ owner_id' = [owner_id EXCEPT ![g] = unbound]
        /\ born' = [born EXCEPT ![g] = [NoBirth EXCEPT !.how = "defer"]]
    /\ UNCHANGED <<movedFrom, firstUser, pc, op, calls>>
    /\ UNCHANGED <<lkVars, trVars>>

\* The mutated copy of the payload: the new guard's object is value-initialised.
CopyObject_Default(v) == 0

\* object{ rhs.object } : T's copy constructor (int)
CopyObject(v) == v

\* ThreadBound(const ThreadBound& rhs), first member initialiser: object{rhs.object}
CopyBegin(self, rhs) ==
    /\ pc[self] = "idle"
    /\ life[rhs] = "live"
    /\ HasSlot
    /\ LET g == NextSlot IN
        /\ life' = [life EXCEPT ![g] = "building"]
        /\ object' = [object EXCEPT ![g] = CopyObject(object[rhs])]
        /\ born' = [born EXCEPT ![g] = [NoBirth EXCEPT !.how = "copy", !.by = self,
                                            !.src = rhs]]
        /\ op' = [op EXCEPT ![self] = [NoOp EXCEPT !.this = g, !.rhs = rhs]]
    /\ pc' = [pc EXCEPT ![self] = "copy_owner"]
    /\ UNCHANGED <<owner_id, movedFrom, firstUser, calls>>
    /\ UNCHANGED <<lkVars, trVars>>

\* The mutated copy: it takes the binding away from its source, as a move does.
CopyOwner_TakesOwner(self) ==
    /\ pc[self] = "copy_owner"
    /\ LET g == op[self].this
           rhs == op[self].rhs IN
        /\ owner_id' = [owner_id EXCEPT ![g] = get_owner_id_(owner_id[rhs], self),
                                        ![rhs] = unbound]
        /\ born' = [born EXCEPT ![g].srcOwner = owner_id[rhs]]
        /\ life' = [life EXCEPT ![g] = "live"]
    /\ pc' = [pc EXCEPT ![self] = "idle"]
    /\ op' = [op EXCEPT ![self] = NoOp]
    /\ UNCHANGED <<object, movedFrom, firstUser, calls>>
    /\ UNCHANGED <<lkVars, trVars>>

\* ThreadBound(const ThreadBound& rhs), second initialiser: owner_id{get_owner_id_(rhs)}
CopyOwner(self) ==
    /\ pc[self] = "copy_owner"
    /\ LET g == op[self].this
           rhs == op[self].rhs IN
        /\ owner_id' = [owner_id EXCEPT ![g] = get_owner_id_(owner_id[rhs], self)]
        /\ born' = [born EXCEPT ![g].srcOwner = owner_id[rhs]]
        /\ life' = [life EXCEPT ![g] = "live"]
    /\ pc' = [pc EXCEPT ![self] = "idle"]
    /\ op' = [op EXCEPT ![self] = NoOp]
    /\ UNCHANGED <<object, movedFrom, firstUser, calls>>
    /\ UNCHANGED <<lkVars, trVars>>

\* ThreadBound(ThreadBound&& rhs), first initialiser: object{std::move(rhs.object)}.
\* Moving an int leaves the source value as it is.
MoveBegin(self, rhs) ==
    /\ pc[self] = "idle"
    /\ life[rhs] = "live"
    /\ HasSlot
    /\ LET g == NextSlot IN
        /\ life' = [life EXCEPT ![g] = "building"]
        /\ object' = [object EXCEPT ![g] = object[rhs]]
        /\ born' = [born EXCEPT ![g] = [NoBirth EXCEPT !.how = "move", !.by = self,
                                            !.src = rhs]]
        /\ op' = [op EXCEPT ![self] = [NoOp EXCEPT !.this = g, !.rhs = rhs]]
    /\ pc' = [pc EXCEPT ![self] = "move_owner"]
    /\ UNCHANGED <<owner_id, movedFrom, firstUser, calls>>
    /\ UNCHANGED <<lkVars, trVars>>

\* ThreadBound(ThreadBound&& rhs), second initialiser: owner_id{get_owner_id_(rhs)}
MoveOwner(self) ==
    /\ pc[self] = "move_owner"
    /\ LET g == op[self].this
           rhs == op[self].rhs IN
        /\ owner_id' = [owner_id EXCEPT ![g] = get_owner_id_(owner_id[rhs], self)]
        /\ born' = [born EXCEPT ![g].srcOwner = owner_id[rhs]]
    /\ pc' = [pc EXCEPT ![self] = "move_reset"]
    /\ UNCHANGED <<life, object, movedFrom, firstUser, op, calls>>
    /\ UNCHANGED <<lkVars, trVars>>

\* The mutated constructor body: the source keeps its recorded owner.
MoveReset_Keep(self) ==
    /\ pc[self] = "move_reset"
    /\ life' = [life EXCEPT ![op[self].this] = "live"]
    /\ movedFrom' = [movedFrom EXCEPT ![op[self].rhs] = TRUE]
    /\ pc' = [pc EXCEPT ![self] = "idle"]
    /\ op' = [op EXCEPT ![self] = NoOp]
    /\ UNCHANGED <<owner_id, object, born, firstUser, calls>>
    /\ UNCHANGED <<lkVars, trVars>>

\* ThreadBound(ThreadBound&& rhs), constructor body: rhs.owner_id = unbound
MoveReset(self) ==
    /\ pc[self] = "move_reset"
    /\ owner_id' = [owner_id EXCEPT ![op[self].rhs] = unbound]
    /\ life' = [life EXCEPT ![op[self].this] = "live"]
    /\ movedFrom' = [movedFrom EXCEPT ![op[self].rhs] = TRUE]
    /\ pc' = [pc EXCEPT ![self] = "idle"]
    /\ op' = [op EXCEPT ![self] = NoOp]
    /\ UNCHANGED <<object, born, firstUser, calls>>
    /\ UNCHANGED <<lkVars, trVars>>

\* ------------------------------------- ThreadBound operator* / operator->

\* The mutated entry of validate_(): the unbound branch is missing, every
\* access goes on to the comparison with the recorded owner.
DerefBegin_NoRebind(self, g) ==
    /\ pc[self] = "idle"
    /\ life[g] = "live"
    /\ calls < MaxCalls
    /\ pc' = [pc EXCEPT ![self] = "val_check"]
    /\ op' = [op EXCEPT ![self] = [NoOp EXCEPT !.this = g, !.first = is_unbound(firstUser[g])]]
    /\ firstUser' = [firstUser EXCEPT ![g] = IF @ = unbound THEN self ELSE @]
    /\ calls' = calls + 1
    /\ UNCHANGED <<life, object, owner_id, born, movedFrom>>
    /\ UNCHANGED <<lkVars, trVars>>

\* operator*, operator-> (const and non-const) enter validate_():
\* the condition  if (is_unbound())  reads owner_id.
DerefBegin(self, g) ==
    /\ pc[self] = "idle"
    /\ life[g] = "live"
    /\ calls < MaxCalls
    /\ pc' = [pc EXCEPT ![self] = IF is_unbound(owner_id[g]) THEN "val_bind" ELSE "val_check"]
    /\ op' = [op EXCEPT ![self] = [NoOp EXCEPT !.this = g, !.first = is_unbound(firstUser[g])]]
    /\ firstUser' = [firstUser EXCEPT ![g] = IF @ = unbound THEN self ELSE @]
    /\ calls' = calls + 1
    /\ UNCHANGED <<life, object, owner_id, born, movedFrom>>
    /\ UNCHANGED <<lkVars, trVars>>

\* validate_(), unbound branch:  owner_id = this_thread::get_id(); return;
ValBind(self) ==
    /\ pc[self] = "val_bind"
    /\ owner_id' = [owner_id EXCEPT ![op[self].this] = get_id(self)]
    /\ pc' = [pc EXCEPT ![self] = "use"]
    /\ UNCHANGED <<life, object, born, movedFrom, firstUser, op, calls>>
    /\ UNCHANGED <<lkVars, trVars>>

\* The mutated comparison: the check lets every thread through.
Mismatch_Never(caller, owner) == FALSE

\* validate_(), the condition  std::this_thread::get_id() != owner_id
Mismatch(caller, owner) == caller # owner

\* validate_(), bound branch: a second read of owner_id, compared with the
\* caller; on a mismatch EH_PANIC is called with both identities.
ValCheck(self) ==
    /\ pc[self] = "val_check"
    /\ LET g == op[self].this IN
        IF Mismatch(get_id(self), owner_id[g])
        THEN /\ pc' = [pc EXCEPT ![self] = "panic"]
             /\ op' = [op EXCEPT ![self].owner = owner_id[g]]
        ELSE /\ pc' = [pc EXCEPT ![self] = "use"]
             /\ UNCHANGED op
    /\ UNCHANGED <<life, object, owner_id, born, movedFrom, firstUser, calls>>
    /\ UNCHANGED <<lkVars, trVars>>

\* EH_PANIC: the report has been made; the operation does not return the
\* payload to its caller.
EH_PANIC(self) ==
    /\ pc[self] = "panic"
    /\ pc' = [pc EXCEPT ![self] = "idle"]
    /\ op' = [op EXCEPT ![self] = NoOp]
    /\ UNCHANGED <<life, object, owner_id, born, movedFrom, firstUser, calls>>
    /\ UNCHANGED <<lkVars, trVars>>

\* return object;  the caller reads the payload through the reference ...
UseRead(self) ==
    /\ pc[self] = "use"
    /\ pc' = [pc EXCEPT ![self] = "idle"]
    /\ op' = [op EXCEPT ![self] = NoOp]
    /\ UNCHANGED <<life, object, owner_id, born, movedFrom, firstUser, calls>>
    /\ UNCHANGED <<lkVars, trVars>>

\* ... or stores a value through it (*counter += 50).
UseWrite(self, v) ==
    /\ pc[self] = "use"
    /\ object' = [object EXCEPT ![op[self].this] = v]
    /\ pc' = [pc EXCEPT ![self] = "idle"]
    /\ op' = [op EXCEPT ![self] = NoOp]
    /\ UNCHANGED <<life, owner_id, born, movedFrom, firstUser, calls>>
    /\ UNCHANGED <<lkVars, trVars>>

\* ------------------------------- ThreadBound is_unbound / get_owner_id

\* The mutated observer: is_unbound() binds an unbound guard to its caller,
\* the way validate_ does.
is_unbound_call_Binds(self, g) ==
    /\ pc[self] = "idle"
    /\ life[g] = "live"
    /\ calls < MaxCalls
    /\ pc' = [pc EXCEPT ![self] = "observe"]
    /\ op' = [op EXCEPT ![self] = [NoOp EXCEPT !.this = g, !.owner = owner_id[g]]]
    /\ owner_id' = [owner_id EXCEPT ![g] = IF is_unbound(@) THEN get_id(self) ELSE @]
    /\ calls' = calls + 1
    /\ UNCHANGED <<life, object, born, movedFrom, firstUser>>
    /\ UNCHANGED <<lkVars, trVars>>

\* bool is_unbound() const: return owner_id == unbound;  one read of owner_id,
\* the caller then has the answer is_unbound(op[self].owner).
is_unbound_call(self, g) ==
    /\ pc[self] = "idle"
    /\ life[g] = "live"
    /\ calls < MaxCalls
    /\ pc' = [pc EXCEPT ![self] = "observe"]
    /\ op' = [op EXCEPT ![self] = [NoOp EXCEPT !.this = g, !.owner = owner_id[g]]]
    /\ calls' = calls + 1
    /\ UNCHANGED <<life, object, owner_id, born, movedFrom, firstUser>>
    /\ UNCHANGED <<lkVars, trVars>>

\* std::thread::id get_owner_id() const: return owner_id;  one read of
\* owner_id, the caller then has the answer op[self].owner.
get_owner_id_call(self, g) ==
    /\ pc[self] = "idle"
    /\ life[g] = "live"
    /\ calls < MaxCalls
    /\ pc' = [pc EXCEPT ![self] = "observe"]
    /\ op' = [op EXCEPT ![self] = [NoOp EXCEPT !.this = g, !.owner = get_owner_id(g)]]
    /\ calls' = calls + 1
    /\ UNCHANGED <<life, object, owner_id, born, movedFrom, firstUser>>
    /\ UNCHANGED <<lkVars, trVars>>

\* The observer has returned; the caller goes on with the value it read.
ObserverReturn(self) ==
    /\ pc[self] = "observe"
    /\ pc' = [pc EXCEPT ![self] = "idle"]
    /\ op' = [op EXCEPT ![self] = NoOp]
    /\ UNCHANGED <<life, object, owner_id, born, movedFrom, firstUser, calls>>
    /\ UNCHANGED <<lkVars, trVars>>

\* ------------------------------------------------------- Synced / Locked

\* Synced::lock(): return Locked{owned_, mutex_};  the thread enters the
\* Locked constructor and std::lock_guard's constructor calls mutex.lock().
\* A thread that already holds the std::mutex blocks in it for ever.
lock(self) ==
    /\ lpc[self] = "idle"
    /\ grants < MaxGrants
    /\ lpc' = [lpc EXCEPT ![self] = "locking"]
    /\ UNCHANGED <<mutex_, owned_, guards, epoch, grants, unlocks, lastExit, opLog>>
    /\ UNCHANGED <<tbVars, trVars>>

\* The mutated constructor: lock_ is built without waiting for the mutex.
Locked_NoWait(self) ==
    /\ lpc[self] = "locking"
    /\ mutex_' = self
    /\ guards' = [guards EXCEPT ![self] = @ + 1]
    /\ grants' = grants + 1
    /\ epoch' = [epoch EXCEPT ![self] = grants + 1]
    /\ lpc' = [lpc EXCEPT ![self] = "idle"]
    /\ UNCHANGED <<owned_, unlocks, lastExit, opLog>>
    /\ UNCHANGED <<tbVars, trVars>>

\* Locked(T& ref, M& mutex): ref_{ref}, lock_{mutex}.  std::mutex::lock()
\* returns once the mutex is free and the caller has become its holder.
Locked(self) ==
    /\ lpc[self] = "locking"
    /\ mutex_ = Free
    /\ mutex_' = self
    /\ guards' = [guards EXCEPT ![self] = @ + 1]
    /\ grants' = grants + 1
    /\ epoch' = [epoch EXCEPT ![self] = grants + 1]
    /\ lpc' = [lpc EXCEPT ![self] = "idle"]
    /\ UNCHANGED <<owned_, unlocks, lastExit, opLog>>
    /\ UNCHANGED <<tbVars, trVars>>

\* Locked::operator* / operator->: return ref_; the holder of the guard reads
\* or stores the payload through it.
LockedAccess(self, v) ==
    /\ lpc[self] = "idle"
    /\ guards[self] > 0
    /\ Len(opLog) < MaxOps
    /\ owned_' = v
    /\ opLog' = Append(opLog, epoch[self])
    /\ UNCHANGED <<mutex_, lpc, guards, epoch, grants, unlocks, lastExit>>
    /\ UNCHANGED <<tbVars, trVars>>

\* The mutated destructor: the guard goes away and the mutex stays locked.
Unlocked_NoRelease(self) ==
    /\ lpc[self] = "idle"
    /\ guards[self] > 0
    /\ unlocks' = unlocks + 1
    /\ guards' = [guards EXCEPT ![self] = @ - 1]
    /\ epoch' = [epoch EXCEPT ![self] = 0]
    /\ UNCHANGED <<mutex_, owned_, lpc, grants, opLog>>
    /\ UNCHANGED <<tbVars, trVars>>

\* ~Locked(): the guard leaves its scope, ~lock_guard calls mutex.unlock().
Unlocked(self) ==
    /\ lpc[self] = "idle"
    /\ guards[self] > 0
    /\ mutex_' = Free
    /\ unlocks' = unlocks + 1
    /\ guards' = [guards EXCEPT ![self] = @ - 1]
    /\ epoch' = [epoch EXCEPT ![self] = 0]
    /\ UNCHANGED <<owned_, lpc, grants, opLog>>
    /\ UNCHANGED <<tbVars, trVars>>

\* The ways the scope of a Locked guard is left: the end of the block, a
\* return statement inside it, an exception thrown inside it.
ExitPaths == {"return", "early", "fault"}

\* The mutated scope exit: an exception skips the destructor of the guard.
ScopeExit_LeakOnFault(self, path) ==
    /\ lastExit' = path
    /\ IF path = "fault"
       THEN /\ lpc[self] = "idle"
            /\ guards[self] > 0
            /\ guards' = [guards EXCEPT ![self] = @ - 1]
            /\ epoch' = [epoch EXCEPT ![self] = 0]
            /\ UNCHANGED <<mutex_, unlocks, owned_, lpc, grants, opLog>>
            /\ UNCHANGED <<tbVars, trVars>>
       ELSE Unlocked(self)

\* The Locked guard is an automatic object (it can be neither copied nor
\* moved, agano.hpp:42-46): on every path out of its scope ~Locked() runs.
ScopeExit(self, path) ==
    /\ lastExit' = path
    /\ Unlocked(self)

\* ------------------------------------------------------- specifications

Next ==
    \/ \E self \in Threads, v \in Values : Construct(self, v)
    \/ \E self \in Threads, v \in Values : ConstructDeferred(self, v)
    \/ \E self \in Threads, rhs \in Guards : CopyBegin(self, rhs)
    \/ \E self \in Threads : CopyOwner(self)
    \/ \E self \in Threads, rhs \in Guards : MoveBegin(self, rhs)
    \/ \E self \in Threads : MoveOwner(self)
    \/ \E self \in Threads : MoveReset(self)
    \/ \E self \in Threads, g \in Guards : DerefBegin(self, g)
    \/ \E self \in Threads : ValBind(self)
    \/ \E self \in Threads : ValCheck(self)
    \/ \E self \in Threads : EH_PANIC(self)
    \/ \E self \in Threads : UseRead(self)
    \/ \E self \in Threads, v \in Values : UseWrite(self, v)
    \/ \E self \in Threads, g \in Guards : is_unbound_call(self, g)
    \/ \E self \in Threads, g \in Guards : get_owner_id_call(self, g)
    \/ \E self \in Threads : ObserverReturn(self)

Spec == Init /\ [][Next]_vars

NextSynced ==
    \/ \E self \in Threads : lock(self)
    \/ \E self \in Threads : Locked(self)
    \/ \E self \in Threads, v \in Values : LockedAccess(self, v)
    \/ \E self \in Threads, path \in ExitPaths : ScopeExit(self, path)

SpecSynced == InitSynced /\ [][NextSynced]_vars

\* Fair scheduling: a thread that holds a guard and is not blocked reaches the
\* end of the guard's scope, and a std::mutex that is free while threads are
\* blocked in lock() is handed to one of them (to which one is up to the OS).
SpecSyncedFair ==
    /\ InitSynced
    /\ [][NextSynced]_vars
    /\ \A self \in Threads : WF_vars(\E path \in ExitPaths : ScopeExit(self, path))
    /\ WF_vars(\E self \in Threads : Locked(self))

NextTraits ==
    \/ \E b \in BaseTypes : Declare(b)
    \/ \E m \in MutexArgs : PickMutex(m)
    \/ AddConst
    \/ \E r \in RefKinds : AddRef(r)
    \/ InstantiateSynced
    \/ EvalSend
    \/ EvalSync
    \/ EvalMutex

\* The compiler classifying the types a translation unit names.
SpecTraits == Init /\ [][NextTraits]_vars

TypeOK ==
    /\ life \in [Guards -> {"none", "building", "live"}]
    /\ object \in [Guards -> Values]
    /\ owner_id \in [Guards -> ThreadIds]
    /\ movedFrom \in [Guards -> BOOLEAN]
    /\ firstUser \in [Guards -> ThreadIds]
    /\ pc \in [Threads -> {"idle", "copy_owner", "move_owner", "move_reset", "val_bind", "val_check", "panic", "use", "observe"}]
    /\ mutex_ \in Threads \cup {Free}
    /\ owned_ \in Values
    /\ lpc \in [Threads -> {"idle", "locking"}]
    /\ guards \in [Threads -> 0..1]
    /\ lastExit \in ExitPaths \cup {"none"}
    /\ ty.base \in BaseTypes /\ ty.const \in BOOLEAN /\ ty.ref \in RefKinds
    /\ Len(ty.wraps) <= MaxNest /\ \A i \in 1..Len(ty.wraps) : Mutex(ty.wraps[i])
    /\ mtx \in MutexArgs
    /\ verdict \in [send : {"?", "yes", "no"}, sync : {"?", "yes", "no"}, mutex : {"?", "yes", "no"}]

\* ------------------------------------------------------------- properties

\* Thread self is inside operator* / operator-> of guard g.
InDeref(self, g) ==
    /\ op[self].this = g
    /\ pc[self] \in {"val_bind", "val_check", "use", "panic"}

\* Guard g is fully constructed and nothing has touched its owner_id since:
\* no operator* / operator-> was entered on it and no move constructor reset it.
Untouched(g) == life[g] = "live" /\ is_unbound(firstUser[g]) /\ ~movedFrom[g]

\* C1: a guard built by the normal constructor on thread A and not moved from
\* is bound to A; an access by A never reaches the report, and an access by a
\* thread other than A never reaches the payload: it runs into the report.
C1_BoundAtConstruction ==
    \A g \in Guards : born[g].how = "normal" /\ ~movedFrom[g] =>
        /\ owner_id[g] = born[g].by
        /\ \A t \in Threads : InDeref(t, g) =>
            IF t = born[g].by THEN pc[t] \in {"val_check", "use"}
                              ELSE pc[t] \in {"val_check", "panic"}

\* C1 witness: the constructing thread holds the payload of its guard while
\* another thread has been reported for accessing the same guard.
C1_Witness ==
    \E g \in Guards, a, b \in Threads :
        /\ a # b /\ born[g].how = "normal" /\ born[g].by = a /\ ~movedFrom[g]
        /\ InDeref(a, g) /\ pc[a] = "use"
        /\ InDeref(b, g) /\ pc[b] = "panic" /\ op[b].owner = a

\* C2: a guard built with defer_binding (and not moved from) belongs to the
\* thread X that dereferences it first: once X's first access has returned the
\* guard is bound to X, X is never reported on it, and no other thread holds
\* its payload.
C2_DeferredBindsFirstUser ==
    \A g \in Guards :
        LET X == firstUser[g] IN
        (/\ born[g].how = "defer" /\ ~movedFrom[g]
         /\ ~is_unbound(X)
         /\ ~(InDeref(X, g) /\ op[X].first)) =>
            /\ owner_id[g] = X
            /\ ~(InDeref(X, g) /\ pc[X] = "panic")
            /\ \A y \in Threads \ {X} : ~(InDeref(y, g) /\ pc[y] = "use")

\* C3 as stated: the destination of a move has the binding state its source had
\* just before the move.
C3_MovePreservesBinding ==
    \A g \in Guards : born[g].how = "move" /\ Untouched(g) =>
        owner_id[g] = born[g].srcOwner

\* C3 amended: the destination of a move is unbound when the source was
\* unbound, and bound to the thread that performs the move otherwise.
C3_MoveBindsToMover ==
    \A g \in Guards : born[g].how = "move" /\ Untouched(g) =>
        owner_id[g] = IF is_unbound(born[g].srcOwner) THEN unbound ELSE born[g].by

\* C3 witness: a guard bound to one thread was moved by another thread, and
\* the destination is bound to the mover.
C3_Witness ==
    \E g \in Guards :
        /\ born[g].how = "move" /\ Untouched(g)
        /\ ~is_unbound(born[g].srcOwner) /\ born[g].srcOwner # born[g].by
        /\ owner_id[g] = born[g].by
        /\ movedFrom[born[g].src]

\* C4: when one thread C copy-constructs G2 from a bound guard G1 and then
\* move-constructs G3 from G1, G2 and G3 have the same owner identity, and it
\* differs from the owner G1 had when G1 was bound to a thread other than C.
C4_CopyThenMoveSameOwner ==
    \A g2, g3 \in Guards :
        (/\ g2 < g3 /\ Untouched(g2) /\ Untouched(g3)
         /\ born[g2].how = "copy" /\ born[g3].how = "move"
         /\ born[g2].src = born[g3].src /\ born[g2].by = born[g3].by
         /\ ~is_unbound(born[g2].srcOwner) /\ ~is_unbound(born[g3].srcOwner)) =>
            /\ get_owner_id(g2) = get_owner_id(g3)
            /\ born[g2].srcOwner # born[g2].by => get_owner_id(g2) # born[g2].srcOwner

\* C4 witness: test1 of example.cpp: G1 made on one thread, copied and then
\* moved by another.
C4_Witness ==
    \E g2, g3 \in Guards :
        /\ g2 < g3 /\ Untouched(g2) /\ Untouched(g3)
        /\ born[g2].how = "copy" /\ born[g3].how = "move"
        /\ born[g2].src = born[g3].src /\ born[g2].by = born[g3].by
        /\ born[born[g2].src].how = "normal"
        /\ born[g2].srcOwner = born[born[g2].src].by
        /\ born[g3].srcOwner = born[g2].srcOwner
        /\ born[g2].srcOwner # born[g2].by
        /\ get_owner_id(g2) = born[g2].by

\* C5: the step that completes a move constructor leaves the source unbound.
C5_MovedFromIsUnbound ==
    [][\A t \in Threads : pc[t] = "move_reset" /\ pc'[t] = "idle" =>
            is_unbound(owner_id'[op[t].rhs])]_vars

\* C5 witness: a guard that was bound by the normal constructor has been moved
\* from and is unbound.
C5_Witness ==
    \E g \in Guards :
        /\ born[g].how = "normal" /\ movedFrom[g] /\ is_unbound(owner_id[g])
        /\ \E h \in Guards : life[h] = "live" /\ born[h].how = "move" /\ born[h].src = g

\* C6: the copy constructor gives the new guard the payload its source has
\* when the copy reads it, keeps it until the constructor returns, and binds
\* the new guard to the copying thread when the source is bound.
C6_CopyLaw ==
    [][\A t \in Threads :
        /\ pc[t] = "idle" /\ pc'[t] = "copy_owner" =>
            object'[op'[t].this] = object[op'[t].rhs]
        /\ pc[t] = "copy_owner" =>
            object'[op[t].this] = object[op[t].this]
        /\ pc[t] = "copy_owner" /\ pc'[t] = "idle" /\ ~is_unbound(owner_id[op[t].rhs]) =>
            life'[op[t].this] = "live" /\ owner_id'[op[t].this] = t]_vars

\* C6 witness: a copy of a guard bound to another thread, bound to the copier
\* and holding the source's non-default payload.
C6_Witness ==
    \E g \in Guards :
        /\ born[g].how = "copy" /\ Untouched(g)
        /\ ~is_unbound(born[g].srcOwner) /\ born[g].srcOwner # born[g].by
        /\ owner_id[g] = born[g].by
        /\ owner_id[born[g].src] = born[g].srcOwner
        /\ object[g] = 1 /\ object[born[g].src] = 1

\* C7: a copy made from an unbound guard is unbound as long as no
\* operator* / operator-> has been entered on the copy itself.
C7_CopyOfUnboundStaysUnbound ==
    \A g \in Guards :
        (/\ life[g] = "live" /\ born[g].how = "copy"
         /\ is_unbound(born[g].srcOwner)
         /\ is_unbound(firstUser[g])) => is_unbound(owner_id[g])

\* C7 witness: test2 of example.cpp: the copy is still unbound after its source
\* was bound by an access and then moved from.
C7_Witness ==
    \E g \in Guards :
        /\ life[g] = "live" /\ born[g].how = "copy"
        /\ is_unbound(born[g].srcOwner) /\ is_unbound(firstUser[g])
        /\ is_unbound(owner_id[g])
        /\ born[born[g].src].how = "defer"
        /\ ~is_unbound(firstUser[born[g].src]) /\ movedFrom[born[g].src]
        /\ \E h \in Guards : born[h].how = "move" /\ born[h].src = born[g].src
                               /\ ~is_unbound(born[h].srcOwner)

\* C8 as stated: after a guard bound to A is moved, by whichever thread, the
\* first access to the destination by a thread other than A is not reported.
C8_MoveHandsOverToAnyThread ==
    \A g \in Guards, t \in Threads :
        (/\ born[g].how = "move" /\ ~movedFrom[g]
         /\ ~is_unbound(born[g].srcOwner) /\ t # born[g].srcOwner
         /\ InDeref(t, g) /\ op[t].first) => pc[t] # "panic"

\* C8 amended: after a guard bound to A is moved by thread M, an access to the
\* destination (not moved from itself) by M is never reported and an access by
\* any other thread never reaches the payload: it runs into the report.
C8_MoveHandsOverToMover ==
    \A g \in Guards, t \in Threads :
        (/\ born[g].how = "move" /\ ~movedFrom[g]
         /\ ~is_unbound(born[g].srcOwner)
         /\ InDeref(t, g)) =>
            IF t = born[g].by THEN pc[t] \in {"val_check", "use"}
                              ELSE pc[t] \in {"val_check", "panic"}

\* C8 witness: a guard bound to A was moved by another thread M, and M's first
\* access to the destination has reached the payload.
C8_Witness ==
    \E g \in Guards, t \in Threads :
        /\ born[g].how = "move" /\ ~movedFrom[g]
        /\ ~is_unbound(born[g].srcOwner) /\ t # born[g].srcOwner
        /\ t = born[g].by
        /\ InDeref(t, g) /\ op[t].first /\ pc[t] = "use"

\* C9: the check-and-bind of validate_ is indivisible: no two distinct threads
\* are both past validate_ and holding the payload of one guard (that no move
\* has reset to unbound in between).
C9_BindIsAtomic ==
    \A g \in Guards : ~movedFrom[g] =>
        Cardinality({t \in Threads : InDeref(t, g) /\ pc[t] = "use"}) <= 1

\* C10: at most one Locked guard over the Synced owner is live, its holder is
\* the holder of the mutex, and the payload operations are ordered by the
\* order in which their guards were granted.
C10_MutualExclusion ==
    /\ Cardinality({t \in Threads : guards[t] > 0}) <= 1
    /\ \A t \in Threads : guards[t] <= 1 /\ (guards[t] = 1 => mutex_ = t /\ epoch[t] = grants)
    /\ \A i, j \in 1..Len(opLog) : i <= j => opLog[i] <= opLog[j]

\* C10 witness: a thread holds the guard while another is blocked in lock(),
\* and operations through two successive guards have been made.
C10_Witness ==
    \E t, u \in Threads :
        /\ t # u /\ guards[t] = 1 /\ lpc[u] = "locking"
        /\ Len(opLog) >= 2 /\ opLog[1] < opLog[Len(opLog)]

\* C11: every way out of a Locked guard's scope releases the owner's mutex
\* exactly once: the releases made are the grants made less the guards still
\* live, and with no guard live the mutex is free and a thread blocked in
\* lock() can take it.
C11_ReleaseOnEveryExit ==
    /\ grants = unlocks + Cardinality({t \in Threads : guards[t] > 0})
    /\ (\A t \in Threads : guards[t] = 0) =>
        /\ mutex_ = Free
        /\ \A u \in Threads : lpc[u] = "locking" => ENABLED Locked(u)

\* C11 witness: a guard left its scope through an exception while another
\* thread was blocked in lock(); the mutex is free for that thread.
C11_Witness ==
    \E u \in Threads :
        /\ lastExit = "fault" /\ grants = 1 /\ unlocks = 1
        /\ lpc[u] = "locking" /\ mutex_ = Free /\ ENABLED Locked(u)

\* Some thread is blocked inside Synced::lock().
SomeBlocked == \E t \in Threads : lpc[t] = "locking"

\* No thread has called lock() while it holds a guard on the same owner.
NoRelock == \A t \in Threads : ~(guards[t] > 0 /\ lpc[t] = "locking")

\* C18: a thread that has a guard holds the mutex; and, with no thread ever
\* calling lock() while it holds a guard, whenever threads are blocked in
\* lock() a further guard is eventually granted.
C18_LockProgress ==
    /\ [](\A t \in Threads : guards[t] > 0 => mutex_ = t)
    /\ ([]NoRelock) =>
        \A n \in 0..(MaxGrants + NThreads) : (SomeBlocked /\ grants = n) ~> (grants > n)

\* C18 witness: a thread that had to wait for an earlier guard to go away now
\* holds the guard, while another thread is blocked in lock().
C18_Witness ==
    \E t, u \in Threads :
        /\ t # u /\ guards[t] = 1 /\ mutex_ = t /\ epoch[t] >= 2 /\ unlocks >= 1
        /\ lpc[u] = "locking" /\ NoRelock

\* Thread t takes a step.
Steps(t) == pc'[t] # pc[t]

C13_ReportBeforeAccess ==
    [][\A t \in Threads :
        /\ pc[t] = "val_check" /\ Steps(t) /\ owner_id[op[t].this] # get_id(t) =>
            /\ pc'[t] = "panic"
            /\ op'[t].owner = owner_id[op[t].this]
            /\ op'[t].owner # get_id(t)
            /\ op'[t].this = op[t].this
            /\ object' = object
        /\ pc[t] = "panic" /\ Steps(t) =>
            /\ pc'[t] = "idle"
            /\ object' = object]_vars

\* C13 witness: thread u is in the report for a deferred guard that thread t
\* bound by its first access.
C13_Witness ==
    \E g \in Guards, t, u \in Threads :
        /\ t # u /\ born[g].how = "defer" /\ owner_id[g] = t /\ firstUser[g] = t
        /\ InDeref(u, g) /\ pc[u] = "panic" /\ op[u].owner = t

\* C14: is_unbound() and get_owner_id(), called by any thread on a guard in
\* any state, leave every guard's owner and payload unchanged, return what the
\* guard records, and never end in a violation report.
C14_ObserversArePure ==
    [][\A t \in Threads :
        /\ pc'[t] = "observe" /\ Steps(t) =>
            /\ owner_id' = owner_id /\ object' = object
            /\ firstUser' = firstUser /\ movedFrom' = movedFrom
            /\ op'[t].owner = owner_id[op'[t].this]
        /\ pc[t] = "observe" /\ Steps(t) =>
            /\ pc'[t] = "idle"
            /\ owner_id' = owner_id /\ object' = object]_vars

\* C14 witness: thread t observes a guard bound to the other thread u while u
\* observes an unbound guard.
C14_Witness ==
    \E t, u \in Threads, g, h \in Guards :
        /\ t # u /\ g # h
        /\ pc[t] = "observe" /\ op[t].this = g /\ op[t].owner = u /\ owner_id[g] = u
        /\ pc[u] = "observe" /\ op[u].this = h /\ op[u].owner = unbound
        /\ is_unbound(owner_id[h])

\* C17: the two steps of a copy construction leave the source's owner and
\* payload (and every other existing guard) as they were, and the copy's
\* payload is its own: a write through one guard changes the payload of that
\* guard only, so neither a copy nor its source sees it.
C17_CopyIsIndependent ==
    [][\A t \in Threads :
        /\ pc'[t] = "copy_owner" /\ Steps(t) =>
            \A h \in Guards : h # op'[t].this =>
                owner_id'[h] = owner_id[h] /\ object'[h] = object[h]
        /\ pc[t] = "copy_owner" /\ Steps(t) =>
            /\ object' = object
            /\ \A h \in Guards : h # op[t].this => owner_id'[h] = owner_id[h]
        /\ pc[t] = "use" /\ Steps(t) =>
            \A h \in Guards : h # op[t].this => object'[h] = object[h]]_vars

\* C17 witness: a copy taken from an unbound guard holding 1 still holds 1 and
\* has not been dereferenced, after a write through the source stored 0 there.
C17_Witness ==
    \E g \in Guards :
        /\ born[g].how = "copy" /\ Untouched(g) /\ life[g] = "live"
        /\ is_unbound(born[g].srcOwner)
        /\ object[g] = 1 /\ object[born[g].src] = 0
        /\ ~is_unbound(owner_id[born[g].src])

\* C19: once a guard is bound to a thread, its recorded owner never changes to
\* another thread; the only change is the reset to unbound made by the move
\* constructor on its source.
C19_OwnerStable ==
    [][\A g \in Guards :
        ~is_unbound(owner_id[g]) /\ owner_id'[g] # owner_id[g] =>
            /\ is_unbound(owner_id'[g])
            /\ \E t \in Threads : pc[t] = "move_reset" /\ Steps(t) /\ op[t].rhs = g]_vars

\* C20: a dereference that finds a moved-from guard unbound takes the binding
\* branch, whoever the caller is, and that branch binds the guard to the
\* caller and hands out the payload without a violation report.
C20_MovedFromRebinds ==
    [][\A t \in Threads :
        /\ pc[t] = "idle" /\ pc'[t] \in {"val_bind", "val_check"}
           /\ movedFrom[op'[t].this] /\ is_unbound(owner_id[op'[t].this]) =>
            pc'[t] = "val_bind"
        /\ pc[t] = "val_bind" /\ Steps(t) /\ movedFrom[op[t].this] =>
            /\ pc'[t] = "use"
            /\ owner_id'[op[t].this] = get_id(t)]_vars

\* C20 witness: guard g was made bound to thread a and moved from by a; thread
\* x, another thread, dereferenced it afterwards, is its owner now and holds
\* its payload.
C20_Witness ==
    \E g, d \in Guards, a, x \in Threads :
        /\ a # x
        /\ born[g].how = "normal" /\ born[g].by = a /\ movedFrom[g]
        /\ born[d].how = "move" /\ born[d].src = g /\ born[d].by = a
        /\ born[d].srcOwner = a /\ life[d] = "live"
        /\ firstUser[g] = x
        /\ InDeref(x, g) /\ pc[x] = "use" /\ owner_id[g] = x

\* C15: whatever type T the compiler classifies, Sync<T> gives the answer
\* that Send gives for the const view const T& of T.
C15_SyncIsSendOfConstView ==
    verdict.sync # "?" => verdict.sync = Answer(Send(ConstRef(ty)))

\* C16: every Synced<T, M> that can be instantiated, that is with Send<T> and
\* Mutex<M>, is classified Send.
C16_SyncedIsSend ==
    IsSynced(ty) /\ verdict.send # "?" => verdict.send = "yes"

====
